---- MODULE Spec2Model ----
(***************************************************************************)
(* Model of the acquisition-and-correlation pipeline of the layoffs        *)
(* tracker: the aggregation engine of src/src/combined_analysis.py and the *)
(* paginated fetcher of src/src/scraper.py as driven by src/main.py.       *)
(*                                                                         *)
(* A Python string is a sequence of one-character strings, a DataFrame is  *)
(* a record [cols, rows] (rows a sequence of records over cols), and a     *)
(* cell is <<v>> for a value and <<>> for NaN/None.                        *)
(***************************************************************************)
EXTENDS Integers, Sequences, FiniteSets, TLC

VARIABLES
    \* ---- aggregation engine (combined_analysis.py)
    pcA,           \* position in analyze_combined.main: "input", "analyzed", "combined",
                   \* "summarized", "plotted", or "raised" / "plot_raised"
    reddit_df,     \* the caller's discussion table
    companies,     \* the configured organization list
    layoffs_df,    \* the reference events
    sentiment_df,  \* the table returned by analyze_company_sentiment
    combined,      \* the table returned by combine_layoffs_and_sentiment
    corr_report,   \* the correlation lines printed and the plot titles set
    \* ---- fetcher (scraper.py, main.scrape_all)
    limit,         \* config scraping.posts_per_subreddit
    use_praw,      \* strategy chosen by scrape_all
    chan,          \* index of the channel scrape_all is at
    pcS,           \* position of scrape_all and of the running generator
    after,         \* scrape_subreddit_public: cursor of the last response
    fetched,       \* scrape_subreddit_public: records yielded so far
    page,          \* children of the current response not yet looked at
    resp_after,    \* data.after of the current response
    posts,         \* records the list(...) of scrape_all has taken from the generator
    all_posts,     \* aggregate list of scrape_all
    log,           \* events of the current call: requests (with cursor sent) and pauses
    fetch_log,     \* channels for which a fetch was started, in order
    pages,         \* well-formed responses of the current call: children and cursor
    include_comments, \* config scraping.include_comments
    comment_calls, \* post ids scrape_comments_public was called with for this channel
    have_comments, \* truth value of all_comments of this channel
    comment_files, \* channels whose comments file was written
    REDDIT_CLIENT_ID,     \* environment variable ("" when unset)
    REDDIT_CLIENT_SECRET, \* environment variable ("" when unset)
    \* ---- record normalization of the two strategies (scraper.py)
    listing_post,  \* data object of one post as the listing endpoint sends it
    rec_public,    \* what scrape_subreddit_public yields for it
    rec_praw,      \* what scrape_subreddit_praw yields for it
    \* ---- comment-tree walker (scraper.scrape_comments_public)
    comments_data, \* data[1].data.children of the response
    comment_limit, \* the limit argument
    comment_out,   \* list(scrape_comments_public(...))
    \* ---- name matchers (analyzer.py, analyze_layoffs.py)
    m_text,        \* the text argument
    m_companies,   \* the companies argument
    found_analyzer,  \* result of analyzer.extract_companies
    found_layoffs,   \* result of analyze_layoffs.extract_companies
    found_mask,      \* organizations whose mask selects the text in analyze_company_sentiment
    \* ---- sentiment classifier (sentiment.py)
    s_text,        \* the text argument
    s_result,      \* the dict returned by analyze_sentiment
    blob_calls     \* number of TextBlob(...) constructions

aggVars == <<pcA, reddit_df, companies, layoffs_df, sentiment_df, combined, corr_report>>
scrapeVars == <<limit, use_praw, chan, pcS, after, fetched, page, resp_after, posts, all_posts, log, fetch_log,
                pages, include_comments, comment_calls, have_comments, comment_files>>
envVars == <<REDDIT_CLIENT_ID, REDDIT_CLIENT_SECRET>>
recordVars == <<listing_post, rec_public, rec_praw>>
commentVars == <<comments_data, comment_limit, comment_out>>
matchVars == <<m_text, m_companies, found_analyzer, found_layoffs, found_mask>>
sentVars == <<s_text, s_result, blob_calls>>
vars == <<aggVars, scrapeVars, envVars, recordVars, commentVars, matchVars, sentVars>>

\* what an action of one component leaves alone
outsideAgg == <<scrapeVars, envVars, recordVars, commentVars, matchVars, sentVars>>
outsideScrape == <<aggVars, envVars, recordVars, commentVars, matchVars, sentVars>>
outsideRecord == <<aggVars, scrapeVars, envVars, commentVars, matchVars, sentVars>>
outsideComments == <<aggVars, scrapeVars, envVars, recordVars, matchVars, sentVars>>
outsideMatch == <<aggVars, scrapeVars, envVars, recordVars, commentVars, sentVars>>
outsideSentiment == <<aggVars, scrapeVars, envVars, recordVars, commentVars, matchVars>>

-----------------------------------------------------------------------------
(* Bounds of the model *)
MaxEvents == 2
MaxPosts == 2

-----------------------------------------------------------------------------
(* Strings *)

\* str.lower() on the characters the model uses
LowerChar(c) ==
    CASE c = "A" -> "a"
      [] c = "B" -> "b"
      [] c = "C" -> "c"
      [] OTHER -> c

Lower(s) == [i \in 1..Len(s) |-> LowerChar(s[i])]

\* ord(c), for the lexicographic order pandas sorts keys by
Ord(c) ==
    CASE c = " " -> 32
      [] c = "A" -> 65
      [] c = "B" -> 66
      [] c = "C" -> 67
      [] c = "a" -> 97
      [] c = "b" -> 98
      [] c = "c" -> 99
      [] c = "x" -> 120
      [] OTHER -> 0

RECURSIVE StrLess(_, _)
StrLess(s, t) ==
    IF s = <<>> THEN t # <<>>
    ELSE IF t = <<>> THEN FALSE
    ELSE IF Ord(Head(s)) # Ord(Head(t)) THEN Ord(Head(s)) < Ord(Head(t))
    ELSE StrLess(Tail(s), Tail(t))

\* sorted(S) for a finite set of strings
RECURSIVE SortStr(_)
SortStr(S) ==
    IF S = {} THEN <<>>
    ELSE LET m == CHOOSE x \in S : \A y \in S \ {x} : StrLess(x, y)
         IN  <<m>> \o SortStr(S \ {m})

\* \w of Python's re for str patterns, on the characters the model uses
IsWordChar(c) == c \in {"A", "B", "C", "a", "b", "c", "x", "_", "1"}

\* \b at the gap after position k of t (k = 0 is the start of the text)
AtBoundary(t, k) ==
    LET before == k >= 1 /\ IsWordChar(t[k])
        behind == k < Len(t) /\ IsWordChar(t[k + 1])
    IN  before # behind

\* the literal lit occupies t[i .. i+Len(lit)-1], with \b on both sides
MatchesAt(t, lit, i) ==
    /\ i + Len(lit) - 1 <= Len(t)
    /\ \A j \in 1..Len(lit) : t[i + j - 1] = lit[j]
    /\ AtBoundary(t, i - 1)
    /\ AtBoundary(t, i + Len(lit) - 1)

\* re.search(r'\b' + re.escape(lit) + r'\b', t)
WordSearch(lit, t) == \E i \in 1..(Len(t) + 1) : MatchesAt(t, lit, i)

-----------------------------------------------------------------------------
(* Cells and tables *)

NaN == <<>>
V(x) == <<x>>
Val(c) == c[1]
IsNull(c) == c = NaN

\* Series.fillna(d) on one cell
FillNa(c, d) == IF IsNull(c) THEN V(d) ELSE c

\* pd.DataFrame(records): a table without rows has no columns either
DataFrame(records) ==
    [cols |-> IF records = <<>> THEN {} ELSE DOMAIN records[1], rows |-> records]

RECURSIVE SumOver(_, _)
SumOver(f, S) ==
    IF S = {} THEN 0
    ELSE LET x == CHOOSE x \in S : TRUE IN f[x] + SumOver(f, S \ {x})

MinOf(S) == CHOOSE x \in S : \A y \in S : x <= y
MaxOf(S) == CHOOSE x \in S : \A y \in S : x >= y

RECURSIVE Fact(_)
Fact(n) == IF n <= 1 THEN 1 ELSE n * Fact(n - 1)

\* Series.mean() of the integers f[i], i in S (S not empty), as an exact
\* fixed-point number in units of 1/Fact(MaxPosts)
Mean(f, S) == (SumOver(f, S) * Fact(MaxPosts)) \div Cardinality(S)

-----------------------------------------------------------------------------
(* Sentiment (src/src/sentiment.py) *)

\* Python values a text argument can be: None, float('nan') or a str
PyNone == [py |-> "None", s |-> <<>>]
PyNaN == [py |-> "nan", s |-> <<>>]
PyStr(t) == [py |-> "str", s |-> t]

\* `not text`
Falsy(text) == text.py = "None" \/ (text.py = "str" /\ text.s = <<>>)

\* pd.isna(text)
isna(text) == text.py \in {"None", "nan"}

\* TextBlob(text).sentiment: the external lexicon scorer, as a table over the
\* texts of the model; polarity and subjectivity in hundredths
TextBlob(t) ==
    CASE t = <<"A", "b", " ">>           -> [polarity |-> 20,  subjectivity |-> 50]
      [] t = <<"x", "A", "b", " ", "B">> -> [polarity |-> -20, subjectivity |-> 100]
      [] t = <<" ", "C">>                -> [polarity |-> 0,   subjectivity |-> 0]
      [] t = <<"C", " ", "a", "b">>      -> [polarity |-> 10,  subjectivity |-> 30]
      [] OTHER                           -> [polarity |-> 0,   subjectivity |-> 0]

\* the label thresholds 0.1 and -0.1, in hundredths
PosThreshold == 10
NegThreshold == -10

\* a labelling that counts the thresholds themselves as positive / negative
sentiment_label_inclusive(polarity) ==
    IF polarity >= PosThreshold THEN "positive"
    ELSE IF polarity <= NegThreshold THEN "negative"
    ELSE "neutral"

\* if polarity > 0.1 ... elif polarity < -0.1 ... else
sentiment_label(polarity) ==
    IF polarity > PosThreshold THEN "positive"
    ELSE IF polarity < NegThreshold THEN "negative"
    ELSE "neutral"

\* a guard that tests emptiness only
no_content_falsy_only(text) == Falsy(text)

\* the guard of the early return: `not text or pd.isna(text)`
no_content(text) == Falsy(text) \/ isna(text)

\* analyze_sentiment(text); sentiment is what TextBlob(str(text)).sentiment
\* gives when the function gets as far as building the blob
analyze_sentiment(text, sentiment) ==
    IF no_content(text)
    THEN [polarity |-> 0, subjectivity |-> 0, label |-> "neutral"]
    ELSE [polarity |-> sentiment.polarity,
          subjectivity |-> sentiment.subjectivity,
          label |-> sentiment_label(sentiment.polarity)]

\* number of TextBlob(...) constructions of one call
blob_constructions(text) == IF no_content(text) THEN 0 ELSE 1

\* df["title"].fillna("") + " " + df["selftext"].fillna("") for one row
text_combined(row) ==
    Val(FillNa(row.title, <<>>)) \o <<" ">> \o Val(FillNa(row.selftext, <<>>))

SentimentCols == {"sentiment_polarity", "sentiment_subjectivity", "sentiment_label"}

\* add_sentiment_to_df(df): works on a copy, returns it with the three
\* sentiment columns (text_combined is added and dropped again)
add_sentiment_to_df(df) ==
    [cols |-> (df.cols \ {"text_combined"}) \cup SentimentCols,
     rows |-> [i \in 1..Len(df.rows) |->
                 LET t == text_combined(df.rows[i])
                     s == analyze_sentiment(PyStr(t), TextBlob(t))
                     keep == [c \in DOMAIN df.rows[i] \ {"text_combined"} |-> df.rows[i][c]]
                 IN  [sentiment_polarity |-> V(s.polarity),
                      sentiment_subjectivity |-> V(s.subjectivity),
                      sentiment_label |-> V(s.label)] @@ keep]]

-----------------------------------------------------------------------------
(* Aggregation engine (src/src/combined_analysis.py) *)

\* reddit_df["text_combined"] = ... : assignment of a column, in place
WithTextCombined(df) ==
    [cols |-> df.cols \cup {"text_combined"},
     rows |-> [i \in 1..Len(df.rows) |->
                 [text_combined |-> V(text_combined(df.rows[i]))] @@ df.rows[i]]]

\* a mask that compares without lowering the case
CompanyMaskCased(df, company) ==
    {i \in 1..Len(df.rows) :
        WordSearch(company, Val(df.rows[i].text_combined))}

\* the rows selected by mask for one company (indices into df.rows)
CompanyMask(df, company) ==
    {i \in 1..Len(df.rows) :
        WordSearch(Lower(company), Lower(Val(df.rows[i].text_combined)))}

LabelCountAny(df, idx, label) ==
    Cardinality({i \in idx : ~IsNull(df.rows[i].sentiment_label)})

\* value_counts().get(label, 0)
LabelCount(df, idx, label) ==
    Cardinality({i \in idx : df.rows[i].sentiment_label = V(label)})

\* the dict appended to results for a company with at least one post
CompanyRecord(df, company) ==
    LET idx == CompanyMask(df, company)
    IN  [company      |-> V(company),
         mentions     |-> V(Cardinality(idx)),
         positive     |-> V(LabelCount(df, idx, "positive")),
         neutral      |-> V(LabelCount(df, idx, "neutral")),
         negative     |-> V(LabelCount(df, idx, "negative")),
         avg_polarity |-> V(Mean([i \in idx |-> Val(df.rows[i].sentiment_polarity)], idx)),
         avg_score    |-> V(Mean([i \in idx |-> Val(df.rows[i].score)], idx)),
         avg_comments |-> V(Mean([i \in idx |-> Val(df.rows[i].num_comments)], idx))]

\* the loop over companies: one record per company whose mask is not empty
RECURSIVE CompanyResults(_, _)
CompanyResults(df, comps) ==
    IF comps = <<>> THEN <<>>
    ELSE (IF Cardinality(CompanyMask(df, Head(comps))) > 0
          THEN <<CompanyRecord(df, Head(comps))>>
          ELSE <<>>) \o CompanyResults(df, Tail(comps))

\* analyze_company_sentiment(reddit_df, companies): ret is the returned table,
\* arg the caller's reddit_df after the call (the text_combined column is
\* assigned on the caller's object unless add_sentiment_to_df copied it)
analyze_company_sentiment(df, comps) ==
    LET copied == "sentiment_label" \notin df.cols
        df1 == IF copied THEN add_sentiment_to_df(df) ELSE df
        df2 == WithTextCombined(df1)
    IN  [ret |-> DataFrame(CompanyResults(df2, comps)),
         arg |-> IF copied THEN df ELSE df2]

LayoffCols == {"total_laid_off", "first_layoff", "last_layoff", "layoff_events"}
MentionCols == {"mentions", "positive", "neutral", "negative",
                "avg_polarity", "avg_score", "avg_comments"}

\* one group of layoffs_df.groupby("company").agg(sum, min, max, count)
LayoffGroup(df, name) ==
    LET idx == {i \in 1..Len(df.rows) : df.rows[i].company = V(name)}
    IN  [company        |-> V(name),
         total_laid_off |-> V(SumOver([i \in idx |-> Val(df.rows[i].laid_off_count)], idx)),
         first_layoff   |-> V(MinOf({Val(df.rows[i].date) : i \in idx})),
         last_layoff    |-> V(MaxOf({Val(df.rows[i].date) : i \in idx})),
         layoff_events  |-> V(Cardinality({i \in idx : ~IsNull(df.rows[i].date)}))]

\* layoffs_agg: one row per case-sensitive company name, sorted by it
\* (groupby sorts its keys), with the company_lower column
layoffs_agg(df) ==
    LET keys == SortStr({Val(df.rows[i].company) : i \in 1..Len(df.rows)})
    IN  [k \in 1..Len(keys) |->
            [company_lower |-> V(Lower(keys[k]))] @@ LayoffGroup(df, keys[k])]

\* sentiment_df["company_lower"] = sentiment_df["company"].str.lower(), in place
WithCompanyLower(df) ==
    [cols |-> df.cols \cup {"company_lower"},
     rows |-> [i \in 1..Len(df.rows) |->
                 [company_lower |-> V(Lower(Val(df.rows[i].company)))] @@ df.rows[i]]]

\* one row of the merge: l and r are a left and a right row, or <<>> for
\* the side that has no row with this key
MergedRow(key, l, r) ==
    [c \in {"company", "company_lower", "company_reddit"} \cup LayoffCols \cup MentionCols |->
        IF c = "company_lower" THEN V(key)
        ELSE IF c = "company" THEN (IF l = <<>> THEN NaN ELSE l.company)
        ELSE IF c = "company_reddit" THEN (IF r = <<>> THEN NaN ELSE r.company)
        ELSE IF c \in LayoffCols THEN (IF l = <<>> THEN NaN ELSE l[c])
        ELSE (IF r = <<>> THEN NaN ELSE r[c])]

\* the rows of an outer merge for one key: every left row with every right
\* row of that key, a lone side padded with NaN
MergeKey(key, left, right) ==
    LET L == SelectSeq(left, LAMBDA x : x.company_lower = V(key))
        R == SelectSeq(right, LAMBDA x : x.company_lower = V(key))
    IN  IF L = <<>> THEN [j \in 1..Len(R) |-> MergedRow(key, <<>>, R[j])]
        ELSE IF R = <<>> THEN [i \in 1..Len(L) |-> MergedRow(key, L[i], <<>>)]
        ELSE [n \in 1..(Len(L) * Len(R)) |->
                MergedRow(key, L[((n - 1) \div Len(R)) + 1], R[((n - 1) % Len(R)) + 1])]

RECURSIVE MergeKeys(_, _, _)
MergeKeys(keys, left, right) ==
    IF keys = <<>> THEN <<>>
    ELSE MergeKey(Head(keys), left, right) \o MergeKeys(Tail(keys), left, right)

\* layoffs_agg.merge(sentiment_df, on="company_lower", how="outer"): the keys
\* of both sides, sorted
OuterMerge(left, right) ==
    MergeKeys(SortStr({Val(left[i].company_lower) : i \in 1..Len(left)}
                      \cup {Val(right[j].company_lower) : j \in 1..Len(right)}),
              left, right)

\* a naming that takes the discussion side's name whenever there is one
NameFromReddit(row) ==
    [c \in DOMAIN row \ {"company_lower", "company_reddit"} |->
        IF c = "company" /\ ~IsNull(row.company_reddit) THEN row.company_reddit ELSE row[c]]

\* combined["company"].fillna(combined["company_reddit"]), then the drop of
\* the two helper columns
NameAndDrop(row) ==
    [c \in DOMAIN row \ {"company_lower", "company_reddit"} |->
        IF c = "company" /\ IsNull(row.company) THEN row.company_reddit ELSE row[c]]

\* the merge without the fill: the missing cells stay NaN
KeepNaN(row) == row

\* combined.fillna(0) on one row
FillZero(row) == [c \in DOMAIN row |-> FillNa(row[c], 0)]

\* combine_layoffs_and_sentiment(layoffs_df, sentiment_df): status "ok" with
\* the returned table, or the exception raised; arg is the caller's
\* sentiment_df after the call
combine_layoffs_and_sentiment(ldf, sdf) ==
    IF "company" \notin sdf.cols
    THEN [status |-> "KeyError", df |-> [cols |-> {}, rows |-> <<>>], arg |-> sdf]
    ELSE LET sdf2 == WithCompanyLower(sdf)
             merged == OuterMerge(layoffs_agg(ldf), sdf2.rows)
         IN  [status |-> "ok",
              df |-> [cols |-> {"company"} \cup LayoffCols \cup MentionCols,
                      rows |-> [i \in 1..Len(merged) |-> FillZero(NameAndDrop(merged[i]))]],
              arg |-> sdf2]

-----------------------------------------------------------------------------
(* Correlation step (print_combined_summary, plot_correlation_analysis) *)

\* combined_df[(combined_df["total_laid_off"] > 0) & (combined_df["mentions"] > 0)]
BothPositive(df) ==
    SelectSeq(df.rows, LAMBDA row : Val(row.total_laid_off) > 0 /\ Val(row.mentions) > 0)

\* Series.corr (Pearson) of two columns: NaN for fewer than two rows or a
\* column without variance; otherwise the coefficient, kept exact as its
\* sign and its square num / den
corr(rows, xcol, ycol) ==
    LET n == Len(rows)
        I == 1..n
        Sx == SumOver([i \in I |-> Val(rows[i][xcol])], I)
        Sy == SumOver([i \in I |-> Val(rows[i][ycol])], I)
        Sxy == SumOver([i \in I |-> Val(rows[i][xcol]) * Val(rows[i][ycol])], I)
        Sxx == SumOver([i \in I |-> Val(rows[i][xcol]) * Val(rows[i][xcol])], I)
        Syy == SumOver([i \in I |-> Val(rows[i][ycol]) * Val(rows[i][ycol])], I)
        cov == n * Sxy - Sx * Sy
        vx == n * Sxx - Sx * Sx
        vy == n * Syy - Sy * Sy
    IN  IF n < 2 \/ vx = 0 \/ vy = 0 THEN NaN
        ELSE V([sign |-> IF cov > 0 THEN 1 ELSE IF cov < 0 THEN -1 ELSE 0,
                num |-> cov * cov, den |-> vx * vy])

\* f"{corr:.3f}" / f"{corr:.2f}": a float NaN goes through the same format
\* and comes out as the text nan
format_float(c, spec) ==
    IF IsNull(c) THEN [spec |-> spec, shown |-> "nan", value |-> NaN]
    ELSE [spec |-> spec, shown |-> "number", value |-> c]

\* the coefficient of layoffs against mentions and against sentiment, each
\* put into its line with the given format
correlation_lines(df, spec) ==
    LET rows == BothPositive(df)
    IN  <<[label |-> "Layoffs vs Mentions",
           text |-> format_float(corr(rows, "total_laid_off", "mentions"), spec)],
          [label |-> "Layoffs vs Sentiment",
           text |-> format_float(corr(rows, "total_laid_off", "avg_polarity"), spec)]>>

-----------------------------------------------------------------------------
(* Inputs of the aggregation *)

SeqUpTo(S, n) == UNION {[1..k -> S] : k \in 0..n}

PostCols == {"title", "selftext", "score", "num_comments"}

\* discussion records as loaded from the posts file (title or selftext may
\* be missing, the score may be negative, a name may be followed by an
\* underscore)
PostPool ==
    {[title |-> V(<<"A", "b">>),      selftext |-> NaN,              score |-> V(4),  num_comments |-> V(1)],
     [title |-> V(<<"x", "A", "b">>), selftext |-> V(<<"B">>),       score |-> V(-1), num_comments |-> V(0)],
     [title |-> NaN,                  selftext |-> V(<<"C">>),       score |-> V(0),  num_comments |-> V(3)],
     [title |-> V(<<"C">>),           selftext |-> V(<<"a", "b">>),  score |-> V(2),  num_comments |-> V(2)],
     [title |-> V(<<"a", "b", "_">>), selftext |-> NaN,              score |-> V(1),  num_comments |-> V(1)]}

\* reference events after clean_layoffs_data (no missing company, date or count)
EventPool ==
    {[company |-> V(<<"A", "b">>), laid_off_count |-> V(2), date |-> V(1)],
     [company |-> V(<<"A", "b">>), laid_off_count |-> V(1), date |-> V(3)],
     [company |-> V(<<"A", "B">>), laid_off_count |-> V(1), date |-> V(2)],
     [company |-> V(<<"C">>),      laid_off_count |-> V(3), date |-> V(1)]}

\* config keywords.companies
CompanyLists ==
    {<<>>,
     << <<"A", "b">> >>,
     << <<"a", "b">>, <<"C">> >>,
     << <<"A", "b">>, <<"a", "b">> >>,
     << <<"B">>, <<"C">> >>}

NoTable == [cols |-> {}, rows |-> <<>>]
NoResult == [status |-> "none", df |-> NoTable]
NoReport == [printed |-> <<>>, titles |-> <<>>]

\* the fetcher is not running while the aggregation is checked
ScrapeIdle ==
    /\ limit = 0
    /\ use_praw = FALSE
    /\ chan = 0
    /\ pcS = "idle"
    /\ after = NaN
    /\ fetched = 0
    /\ page = <<>>
    /\ resp_after = NaN
    /\ posts = <<>>
    /\ all_posts = <<>>
    /\ log = <<>>
    /\ fetch_log = <<>>
    /\ pages = <<>>
    /\ include_comments = FALSE
    /\ comment_calls = <<>>
    /\ have_comments = FALSE
    /\ comment_files = <<>>
    /\ REDDIT_CLIENT_ID = ""
    /\ REDDIT_CLIENT_SECRET = ""

\* a function that has not been called has no result
NoCall == [status |-> "none"]

\* the single-function components are not running
RecordIdle ==
    /\ listing_post = <<>>
    /\ rec_public = NoCall
    /\ rec_praw = NoCall

CommentsIdle ==
    /\ comments_data = <<>>
    /\ comment_limit = 0
    /\ comment_out = NoCall

MatchIdle ==
    /\ m_text = PyNone
    /\ m_companies = <<>>
    /\ found_analyzer = NoCall
    /\ found_layoffs = NoCall
    /\ found_mask = NoCall

SentimentIdle ==
    /\ s_text = PyNone
    /\ s_result = NoCall
    /\ blob_calls = 0

ToolsIdle == RecordIdle /\ CommentsIdle /\ MatchIdle /\ SentimentIdle

InitAgg ==
    /\ pcA = "input"
    /\ \E rows \in SeqUpTo(PostPool, MaxPosts), scored \in BOOLEAN :
          LET raw == [cols |-> PostCols, rows |-> rows]
          IN  reddit_df = IF scored THEN add_sentiment_to_df(raw) ELSE raw
    /\ companies \in CompanyLists
    /\ \E rows \in SeqUpTo(EventPool, MaxEvents) :
          layoffs_df = [cols |-> {"company", "laid_off_count", "date"}, rows |-> rows]
    /\ sentiment_df = NoTable
    /\ combined = NoResult
    /\ corr_report = NoReport
    /\ ScrapeIdle
    /\ ToolsIdle

\* analyze_combined.main, line 65
AnalyzeCompanySentiment ==
    /\ pcA = "input"
    /\ LET r == analyze_company_sentiment(reddit_df, companies)
       IN  /\ sentiment_df' = r.ret
           /\ reddit_df' = r.arg
    /\ pcA' = "analyzed"
    /\ UNCHANGED <<companies, layoffs_df, combined, corr_report>>
    /\ UNCHANGED outsideAgg

\* analyze_combined.main, line 70
CombineLayoffsAndSentiment ==
    /\ pcA = "analyzed"
    /\ LET r == combine_layoffs_and_sentiment(layoffs_df, sentiment_df)
       IN  /\ combined' = [status |-> r.status, df |-> r.df]
           /\ sentiment_df' = r.arg
           /\ pcA' = IF r.status = "ok" THEN "combined" ELSE "raised"
    /\ UNCHANGED <<reddit_df, companies, layoffs_df, corr_report>>
    /\ UNCHANGED outsideAgg

\* analyze_combined.main, line 73: the two correlation lines of the summary
PrintCombinedSummary ==
    /\ pcA = "combined"
    /\ corr_report' = [corr_report EXCEPT !.printed = correlation_lines(combined.df, ".3f")]
    /\ pcA' = "summarized"
    /\ UNCHANGED <<reddit_df, companies, layoffs_df, sentiment_df, combined>>
    /\ UNCHANGED outsideAgg

\* analyze_combined.main, line 87: np.polyfit raises TypeError on an empty
\* vector; otherwise the titles carry the coefficients
PlotCorrelationAnalysis ==
    /\ pcA = "summarized"
    /\ IF BothPositive(combined.df) = <<>>
       THEN /\ pcA' = "plot_raised"
            /\ UNCHANGED corr_report
       ELSE /\ pcA' = "plotted"
            /\ corr_report' = [corr_report EXCEPT !.titles = correlation_lines(combined.df, ".2f")]
    /\ UNCHANGED <<reddit_df, companies, layoffs_df, sentiment_df, combined>>
    /\ UNCHANGED outsideAgg

NextAgg ==
    \/ AnalyzeCompanySentiment
    \/ CombineLayoffsAndSentiment
    \/ PrintCombinedSummary
    \/ PlotCorrelationAnalysis

SpecAgg == InitAgg /\ [][NextAgg]_vars

-----------------------------------------------------------------------------
(* Fetcher (src/src/scraper.py) driven by scrape_all (src/main.py) *)

\* Bounds of the fetcher model
MaxLimit == 2
MaxPage == 2
MaxFetched == 31

\* the number of posts of a channel whose comments are fetched
CommentPostCap == 30

\* config subreddits
Subreddits == <<"layoffs", "jobs">>

\* values of the credential environment variables ("" also stands for unset)
EnvValues == {"", "your_client_id_here", "your_client_secret_here", "k3y"}

\* has_credentials(), on the two values os.getenv returns
\* a check that is content with one usable variable
has_either_credential(client_id, client_secret) ==
    LET placeholders == {"your_client_id_here", "your_client_secret_here", ""}
    IN  client_id \notin placeholders \/ client_secret \notin placeholders

has_credentials(client_id, client_secret) ==
    LET placeholders == {"your_client_id_here", "your_client_secret_here", ""}
    IN  client_id \notin placeholders /\ client_secret \notin placeholders

\* the keys of a child's data that the yield reads with p[...]
RequiredKeys == {"id", "title", "created_utc", "score", "num_comments",
                 "url", "permalink", "is_self"}

Child(i) ==
    [id |-> i, title |-> "t", created_utc |-> 0, score |-> 0, num_comments |-> 0,
     url |-> "u", permalink |-> "/r", is_self |-> TRUE]

\* children[].data objects the endpoint may send: two posts, and one whose
\* title is missing
ChildPool ==
    {Child(1), Child(2), [k \in RequiredKeys \ {"title"} |-> Child(1)[k]]}

\* values of data.after: no cursor, or an opaque token
Cursors == {NaN, V("t3_a"), V("t3_b")}

\* truth value of a cursor in `if after` / `if not after`
Truthy(c) == ~IsNull(c) /\ Val(c) # ""

\* the record yielded for one child
PostRecord(p, subreddit_name) ==
    [id |-> p.id, subreddit |-> subreddit_name, title |-> p.title, score |-> p.score]

\* events of one call
RequestEvent(cursor) == [e |-> "request", after |-> cursor]
SleepEvent == [e |-> "sleep", after |-> NaN]
FailEvent == [e |-> "fail", after |-> NaN]

\* a request that never carries the cursor
SendFirstPage(lg, cursor) == Append(lg, RequestEvent(NaN))

\* requests.get(base_url, params=params): params carries "after" only once
\* a truthy cursor has been stored
SendRequest(lg, cursor) == Append(lg, RequestEvent(IF Truthy(cursor) THEN cursor ELSE NaN))

\* a loop body that goes on without the pause
NoSleep(lg) == lg

\* time.sleep(1)
time_sleep(lg) == Append(lg, SleepEvent)

\* the limit test off by one: fetched > limit
LimitReachedLate(f, l) == f > l

\* the test of `while fetched < limit` and of `if fetched >= limit: break`
LimitReached(f, l) == f >= l

\* a handler that goes round the loop again instead of leaving it
RetryOnException == "while"

\* where the generator goes on requests.RequestException: break
OnRequestException == "collect"

\* the aggregation is not running while the fetcher is checked
AggIdle ==
    /\ pcA = "idle"
    /\ reddit_df = NoTable
    /\ companies = <<>>
    /\ layoffs_df = NoTable
    /\ sentiment_df = NoTable
    /\ combined = NoResult
    /\ corr_report = NoReport

InitScrape ==
    /\ limit \in 0..MaxLimit
    /\ use_praw = FALSE
    /\ chan = 0
    /\ pcS = "start"
    /\ after = NaN
    /\ fetched = 0
    /\ page = <<>>
    /\ resp_after = NaN
    /\ posts = <<>>
    /\ all_posts = <<>>
    /\ log = <<>>
    /\ fetch_log = <<>>
    /\ pages = <<>>
    /\ include_comments \in BOOLEAN
    /\ comment_calls = <<>>
    /\ have_comments = FALSE
    /\ comment_files = <<>>
    /\ REDDIT_CLIENT_ID \in {"", "k3y"}
    /\ REDDIT_CLIENT_SECRET = REDDIT_CLIENT_ID
    /\ AggIdle
    /\ ToolsIdle

\* one run with every setting of the two environment variables
InitCreds ==
    /\ limit = 1
    /\ use_praw = FALSE
    /\ chan = 0
    /\ pcS = "start"
    /\ after = NaN
    /\ fetched = 0
    /\ page = <<>>
    /\ resp_after = NaN
    /\ posts = <<>>
    /\ all_posts = <<>>
    /\ log = <<>>
    /\ fetch_log = <<>>
    /\ pages = <<>>
    /\ include_comments \in BOOLEAN
    /\ comment_calls = <<>>
    /\ have_comments = FALSE
    /\ comment_files = <<>>
    /\ REDDIT_CLIENT_ID \in EnvValues
    /\ REDDIT_CLIENT_SECRET \in EnvValues
    /\ AggIdle
    /\ ToolsIdle

\* scrape_all: use_praw = has_credentials()
SelectStrategy ==
    /\ pcS = "start"
    /\ use_praw' = has_credentials(REDDIT_CLIENT_ID, REDDIT_CLIENT_SECRET)
    /\ pcS' = "channel"
    /\ UNCHANGED <<limit, chan, after, fetched, page, resp_after, posts, all_posts, log, fetch_log>>
    /\ UNCHANGED <<pages, include_comments, comment_calls, have_comments, comment_files>>
    /\ UNCHANGED outsideScrape

\* scrape_all: `for subreddit in subreddits`, the generator is created and
\* list(...) starts to draw from it
NextChannel ==
    /\ pcS = "channel"
    /\ chan < Len(Subreddits)
    /\ chan' = chan + 1
    /\ fetch_log' = Append(fetch_log, Subreddits[chan + 1])
    /\ after' = NaN
    /\ fetched' = 0
    /\ page' = <<>>
    /\ resp_after' = NaN
    /\ posts' = <<>>
    /\ log' = <<>>
    /\ pages' = <<>>
    /\ comment_calls' = <<>>
    /\ pcS' = IF use_praw THEN "praw" ELSE "while"
    /\ UNCHANGED <<limit, use_praw, all_posts>>
    /\ UNCHANGED <<include_comments, have_comments, comment_files>>
    /\ UNCHANGED outsideScrape

\* scrape_all: the loop over the channels is over, the table is returned
ReturnAll ==
    /\ pcS = "channel"
    /\ chan = Len(Subreddits)
    /\ pcS' = "done"
    /\ UNCHANGED <<limit, use_praw, chan, after, fetched, page, resp_after, posts, all_posts, log, fetch_log>>
    /\ UNCHANGED <<pages, include_comments, comment_calls, have_comments, comment_files>>
    /\ UNCHANGED outsideScrape

\* scrape_subreddit_public: `while fetched < limit` is false
LoopExit ==
    /\ pcS = "while"
    /\ LimitReached(fetched, limit)
    /\ pcS' = "collect"
    /\ UNCHANGED <<limit, use_praw, chan, after, fetched, page, resp_after, posts, all_posts, log, fetch_log>>
    /\ UNCHANGED <<pages, include_comments, comment_calls, have_comments, comment_files>>
    /\ UNCHANGED outsideScrape

\* a request that fails in transport (timeout, connection error, non-2xx):
\* requests.RequestException is caught
RequestFails ==
    /\ pcS = "while"
    /\ ~LimitReached(fetched, limit)
    /\ log' = Append(SendRequest(log, after), FailEvent)
    /\ pcS' = OnRequestException
    /\ UNCHANGED <<limit, use_praw, chan, after, fetched, page, resp_after, posts, all_posts, fetch_log>>
    /\ UNCHANGED <<pages, include_comments, comment_calls, have_comments, comment_files>>
    /\ UNCHANGED outsideScrape

\* a response whose body is not JSON: response.json() raises an exception
\* that is a requests.RequestException in some releases of requests and a
\* plain ValueError in others
RequestNotJson ==
    /\ pcS = "while"
    /\ ~LimitReached(fetched, limit)
    /\ log' = SendRequest(log, after)
    /\ \E caught \in BOOLEAN : pcS' = IF caught THEN OnRequestException ELSE "raised"
    /\ UNCHANGED <<limit, use_praw, chan, after, fetched, page, resp_after, posts, all_posts, fetch_log>>
    /\ UNCHANGED <<pages, include_comments, comment_calls, have_comments, comment_files>>
    /\ UNCHANGED outsideScrape

\* a JSON response of another shape (a list, or "data" that is no object):
\* data.get(...) raises AttributeError, which nothing catches
RequestBadShape ==
    /\ pcS = "while"
    /\ ~LimitReached(fetched, limit)
    /\ log' = SendRequest(log, after)
    /\ pcS' = "raised"
    /\ UNCHANGED <<limit, use_praw, chan, after, fetched, page, resp_after, posts, all_posts, fetch_log>>
    /\ UNCHANGED <<pages, include_comments, comment_calls, have_comments, comment_files>>
    /\ UNCHANGED outsideScrape

\* a well-formed response: its children and its cursor
RequestPage ==
    /\ pcS = "while"
    /\ ~LimitReached(fetched, limit)
    /\ log' = SendRequest(log, after)
    /\ \E children \in SeqUpTo(ChildPool, MaxPage), cursor \in Cursors :
          /\ pages' = Append(pages, [children |-> children, after |-> cursor])
          /\ IF children = <<>>
             THEN /\ pcS' = "collect"
                  /\ UNCHANGED <<page, resp_after>>
             ELSE /\ pcS' = "for"
                  /\ page' = children
                  /\ resp_after' = cursor
    /\ UNCHANGED <<limit, use_praw, chan, after, fetched, posts, all_posts, fetch_log>>
    /\ UNCHANGED <<include_comments, comment_calls, have_comments, comment_files>>
    /\ UNCHANGED outsideScrape

\* `for post in posts`: the next child is yielded and list(...) takes it
YieldPost ==
    /\ pcS = "for"
    /\ page # <<>>
    /\ ~LimitReached(fetched, limit)
    /\ RequiredKeys \subseteq DOMAIN Head(page)
    /\ posts' = Append(posts, PostRecord(Head(page), Subreddits[chan]))
    /\ fetched' = fetched + 1
    /\ page' = Tail(page)
    /\ UNCHANGED <<limit, use_praw, chan, pcS, after, resp_after, all_posts, log, fetch_log>>
    /\ UNCHANGED <<pages, include_comments, comment_calls, have_comments, comment_files>>
    /\ UNCHANGED outsideScrape

\* the next child lacks a required key: KeyError leaves the generator,
\* list(...) and scrape_all
ChildKeyError ==
    /\ pcS = "for"
    /\ page # <<>>
    /\ ~LimitReached(fetched, limit)
    /\ ~(RequiredKeys \subseteq DOMAIN Head(page))
    /\ pcS' = "raised"
    /\ UNCHANGED <<limit, use_praw, chan, after, fetched, page, resp_after, posts, all_posts, log, fetch_log>>
    /\ UNCHANGED <<pages, include_comments, comment_calls, have_comments, comment_files>>
    /\ UNCHANGED outsideScrape

\* the for loop ends (no child left, or the limit is reached):
\* after = data.get("data", {}).get("after"); `if not after: break`
EndOfPage ==
    /\ pcS = "for"
    /\ (page = <<>> \/ LimitReached(fetched, limit))
    /\ after' = resp_after
    /\ page' = <<>>
    /\ pcS' = IF Truthy(resp_after) THEN "pause" ELSE "collect"
    /\ UNCHANGED <<limit, use_praw, chan, fetched, resp_after, posts, all_posts, log, fetch_log>>
    /\ UNCHANGED <<pages, include_comments, comment_calls, have_comments, comment_files>>
    /\ UNCHANGED outsideScrape

\* the rate-limit pause at the end of the loop body
Pause ==
    /\ pcS = "pause"
    /\ log' = time_sleep(log)
    /\ pcS' = "while"
    /\ UNCHANGED <<limit, use_praw, chan, after, fetched, page, resp_after, posts, all_posts, fetch_log>>
    /\ UNCHANGED <<pages, include_comments, comment_calls, have_comments, comment_files>>
    /\ UNCHANGED outsideScrape

\* scrape_subreddit_praw: the listing of the client library hands out the
\* next post (it hands out at most `limit`)
PrawYield ==
    /\ pcS = "praw"
    /\ fetched < limit
    /\ \E p \in {Child(1), Child(2)} :
          posts' = Append(posts, PostRecord(p, Subreddits[chan]))
    /\ fetched' = fetched + 1
    /\ UNCHANGED <<limit, use_praw, chan, pcS, after, page, resp_after, all_posts, log, fetch_log>>
    /\ UNCHANGED <<pages, include_comments, comment_calls, have_comments, comment_files>>
    /\ UNCHANGED outsideScrape

\* the listing is exhausted
PrawEnd ==
    /\ pcS = "praw"
    /\ pcS' = "collect"
    /\ UNCHANGED <<limit, use_praw, chan, after, fetched, page, resp_after, posts, all_posts, log, fetch_log>>
    /\ UNCHANGED <<pages, include_comments, comment_calls, have_comments, comment_files>>
    /\ UNCHANGED outsideScrape

\* a request of the client library fails: its exception leaves the
\* generator (no try/except), list(...) and scrape_all
PrawRaise ==
    /\ pcS = "praw"
    /\ log' = Append(log, FailEvent)
    /\ pcS' = "raised"
    /\ UNCHANGED <<limit, use_praw, chan, after, fetched, page, resp_after, posts, all_posts, fetch_log>>
    /\ UNCHANGED <<pages, include_comments, comment_calls, have_comments, comment_files>>
    /\ UNCHANGED outsideScrape

\* an extend that puts the new records in front
extend_front(lst, items) == items \o lst

\* list.extend
extend(lst, items) == lst \o items

\* `if scrape_cfg.get("include_comments") and not use_praw`
walks_comments(include, praw) == include /\ ~praw

\* the slice taken without its end
first_posts_all(ps) == ps

\* posts[:30]
first_posts(ps) ==
    SubSeq(ps, 1, IF Len(ps) < CommentPostCap THEN Len(ps) ELSE CommentPostCap)

\* how one call list(scrape_comments_public(...)) ends in scrape_all: without
\* a comment (request failed, short response, no comment), with comments, or
\* with an exception of a malformed response, which nothing catches
CommentOutcomes == {"none", "some", "raised"}

\* scrape_all: list(...) is complete, all_posts.extend(posts); the comment
\* branch is entered with all_comments = []
Collect ==
    /\ pcS = "collect"
    /\ all_posts' = extend(all_posts, posts)
    /\ pcS' = IF walks_comments(include_comments, use_praw) THEN "comments" ELSE "channel"
    /\ have_comments' = FALSE
    /\ UNCHANGED <<limit, use_praw, chan, after, fetched, page, resp_after, posts, log, fetch_log>>
    /\ UNCHANGED <<pages, include_comments, comment_calls, comment_files>>
    /\ UNCHANGED outsideScrape

\* scrape_all: `for post in posts[:30]`, one call of scrape_comments_public
\* and all_comments.extend(comments)
ScrapeComments ==
    /\ pcS = "comments"
    /\ Len(comment_calls) < Len(first_posts(posts))
    /\ comment_calls' = Append(comment_calls, first_posts(posts)[Len(comment_calls) + 1].id)
    /\ \E outcome \in CommentOutcomes :
          /\ pcS' = IF outcome = "raised" THEN "raised" ELSE "comments"
          /\ have_comments' = (have_comments \/ outcome = "some")
    /\ UNCHANGED <<limit, use_praw, chan, after, fetched, page, resp_after, posts, all_posts, log, fetch_log>>
    /\ UNCHANGED <<pages, include_comments, comment_files>>
    /\ UNCHANGED outsideScrape

\* scrape_all: the loop over posts[:30] is over; `if all_comments:` the
\* comments of the channel are saved
CommentsDone ==
    /\ pcS = "comments"
    /\ Len(comment_calls) = Len(first_posts(posts))
    /\ comment_files' = IF have_comments THEN Append(comment_files, Subreddits[chan])
                                          ELSE comment_files
    /\ pcS' = "channel"
    /\ UNCHANGED <<limit, use_praw, chan, after, fetched, page, resp_after, posts, all_posts, log, fetch_log>>
    /\ UNCHANGED <<pages, include_comments, comment_calls, have_comments>>
    /\ UNCHANGED outsideScrape

NextScrape ==
    \/ SelectStrategy
    \/ NextChannel
    \/ ReturnAll
    \/ LoopExit
    \/ RequestFails
    \/ RequestNotJson
    \/ RequestBadShape
    \/ RequestPage
    \/ YieldPost
    \/ ChildKeyError
    \/ EndOfPage
    \/ Pause
    \/ PrawYield
    \/ PrawEnd
    \/ PrawRaise
    \/ Collect
    \/ ScrapeComments
    \/ CommentsDone

SpecScrape == InitScrape /\ [][NextScrape]_vars

\* scrape_all runs to its end: a sequential program takes its next step
FairScrape == SpecScrape /\ WF_vars(NextScrape)

\* scrape_all at the point where list(...) of its first channel has returned
\* a long listing: the records fetched are numbered in fetch order
FetchedPosts(n) == [i \in 1..n |-> PostRecord(Child(i), Subreddits[1])]

InitWalk ==
    /\ limit = MaxFetched
    /\ REDDIT_CLIENT_ID \in {"", "k3y"}
    /\ REDDIT_CLIENT_SECRET = REDDIT_CLIENT_ID
    /\ use_praw = has_credentials(REDDIT_CLIENT_ID, REDDIT_CLIENT_SECRET)
    /\ chan = 1
    /\ pcS = "collect"
    /\ after = NaN
    /\ \E n \in 0..MaxFetched :
          /\ fetched = n
          /\ posts = FetchedPosts(n)
    /\ page = <<>>
    /\ resp_after = NaN
    /\ all_posts = <<>>
    /\ log = <<>>
    /\ fetch_log = <<Subreddits[1]>>
    /\ pages = <<>>
    /\ include_comments \in BOOLEAN
    /\ comment_calls = <<>>
    /\ have_comments = FALSE
    /\ comment_files = <<>>
    /\ AggIdle
    /\ ToolsIdle

\* the rest of the loop body of scrape_all for that channel
NextWalk ==
    \/ Collect
    \/ ScrapeComments
    \/ CommentsDone

SpecWalk == InitWalk /\ [][NextWalk]_vars

\* the same run under every credential setting
SpecCreds == InitCreds /\ [][NextScrape]_vars

-----------------------------------------------------------------------------
(* Record normalization of the two strategies (src/src/scraper.py) *)

\* datetime.utcfromtimestamp(t): calendar day since the epoch and second of
\* that day
utcfromtimestamp(t) == [days |-> t \div 86400, seconds |-> t % 86400]

\* d.get(key, default)
Get(d, key, default) == IF key \in DOMAIN d THEN d[key] ELSE default

\* keys of a post's data object that a listing may leave out
OptionalKeys == {"selftext", "upvote_ratio", "link_flair_text"}

\* the keys every listing entry of the model carries
BasePost(id, author, is_self) ==
    [id |-> id, title |-> "t", author |-> author, created_utc |-> 86405,
     score |-> 7, num_comments |-> 3, url |-> "u", permalink |-> "/r/x",
     is_self |-> is_self]

\* a base post extended with the optional keys the listing sent: each of
\* selftext, upvote_ratio and link_flair_text is <<>> when the key is left
\* out and <<value>> when it is sent
WithOptional(base, selftext, upvote_ratio, link_flair_text) ==
    LET sent == {k \in OptionalKeys :
                    \/ k = "selftext" /\ selftext # <<>>
                    \/ k = "upvote_ratio" /\ upvote_ratio # <<>>
                    \/ k = "link_flair_text" /\ link_flair_text # <<>>}
    IN  [k \in (DOMAIN base) \cup sent |->
            CASE k = "selftext" -> selftext[1]
              [] k = "upvote_ratio" -> upvote_ratio[1]
              [] k = "link_flair_text" -> link_flair_text[1]
              [] OTHER -> base[k]]

\* the data objects of the model: the author is a name or, for a deleted
\* account, the string "[deleted]"; upvote_ratio is in hundredths; a flair
\* is null or a text
ListingPosts ==
    { WithOptional(BasePost(id, author, is_self), st, ur, fl) :
        id \in {1, 2}, author \in {"[deleted]", "u1"}, is_self \in BOOLEAN,
        st \in {<<>>, <<"">>, <<"s">>}, ur \in {<<>>, <<95>>},
        fl \in {<<>>, <<NaN>>, <<V("f")>>} }

\* the praw Submission built from the same data object: its attributes are
\* the keys the listing sent, and author is None for a deleted account
Submission(p) ==
    [k \in DOMAIN p |->
        IF k = "author" THEN (IF p[k] = "[deleted]" THEN NaN ELSE V(p[k])) ELSE p[k]]

\* f"https://reddit.com{permalink}"
Permalink(path) == <<"https://reddit.com", path>>

\* the dict yielded by scrape_subreddit_public for one child; p[...] of a
\* missing key raises KeyError
public_record(p, subreddit_name) ==
    IF ~(RequiredKeys \subseteq DOMAIN p)
    THEN [status |-> "KeyError"]
    ELSE [status |-> "ok",
          rec |-> [id |-> p.id,
                   subreddit |-> subreddit_name,
                   title |-> p.title,
                   selftext |-> Get(p, "selftext", ""),
                   author |-> Get(p, "author", "[deleted]"),
                   created_utc |-> utcfromtimestamp(p.created_utc),
                   score |-> p.score,
                   upvote_ratio |-> Get(p, "upvote_ratio", 0),
                   num_comments |-> p.num_comments,
                   url |-> p.url,
                   permalink |-> Permalink(p.permalink),
                   is_self |-> p.is_self,
                   flair |-> Get(p, "link_flair_text", NaN)]]

\* the attributes scrape_subreddit_praw reads with post.<name>
PrawAttributes == {"id", "title", "selftext", "author", "created_utc", "score",
                   "upvote_ratio", "num_comments", "url", "permalink", "is_self",
                   "link_flair_text"}

\* the dict yielded by scrape_subreddit_praw for one submission; reading an
\* attribute the object does not have raises AttributeError
praw_record(post, subreddit_name) ==
    IF ~(PrawAttributes \subseteq DOMAIN post)
    THEN [status |-> "AttributeError"]
    ELSE [status |-> "ok",
          rec |-> [id |-> post.id,
                   subreddit |-> subreddit_name,
                   title |-> post.title,
                   selftext |-> post.selftext,
                   author |-> IF ~IsNull(post.author) THEN Val(post.author) ELSE "[deleted]",
                   created_utc |-> utcfromtimestamp(post.created_utc),
                   score |-> post.score,
                   upvote_ratio |-> post.upvote_ratio,
                   num_comments |-> post.num_comments,
                   url |-> post.url,
                   permalink |-> Permalink(post.permalink),
                   is_self |-> post.is_self,
                   flair |-> post.link_flair_text]]

InitRecord ==
    /\ listing_post \in ListingPosts
    /\ rec_public = NoCall
    /\ rec_praw = NoCall
    /\ AggIdle
    /\ ScrapeIdle
    /\ CommentsIdle
    /\ MatchIdle
    /\ SentimentIdle

\* scrape_subreddit_public reaches the post and yields
NormalizePublic ==
    /\ rec_public = NoCall
    /\ rec_public' = public_record(listing_post, Subreddits[1])
    /\ UNCHANGED <<listing_post, rec_praw>>
    /\ UNCHANGED outsideRecord

\* scrape_subreddit_praw reaches the post and yields
NormalizePraw ==
    /\ rec_praw = NoCall
    /\ rec_praw' = praw_record(Submission(listing_post), Subreddits[1])
    /\ UNCHANGED <<listing_post, rec_public>>
    /\ UNCHANGED outsideRecord

NextRecord ==
    \/ NormalizePublic
    \/ NormalizePraw

SpecRecord == InitRecord /\ [][NextRecord]_vars

-----------------------------------------------------------------------------
(* Comment-tree walker (src/src/scraper.py, scrape_comments_public) *)

\* Bounds of the walker model: nodes of a reply tree, and the limit argument
MaxNodes == 4
MaxCommentLimit == 3

\* what a node of the response is: a comment with a creation time, a comment
\* without one, or a "load more" stub
NodeTypes ==
    {[kind |-> "t1", created_utc |-> V(86405)],
     [kind |-> "t1", created_utc |-> NaN],
     [kind |-> "more", created_utc |-> NaN]}

\* number of nodes of a forest
RECURSIVE Size(_)
Size(forest) ==
    IF forest = <<>> THEN 0
    ELSE 1 + Size(Head(forest).replies) + Size(Tail(forest))

\* every forest (children list, each child with its replies list) of at most
\* n nodes
RECURSIVE Forests(_)
Forests(n) ==
    IF n = 0 THEN {<<>>}
    ELSE {<<>>} \cup
         UNION { { <<[kind |-> ty.kind, created_utc |-> ty.created_utc, replies |-> r]>> \o rest :
                     ty \in NodeTypes, rest \in Forests(n - 1 - Size(r)) } :
                 r \in Forests(n - 1) }

\* the ids of the nodes: each node is named by its path from the top level
RECURSIVE WithIds(_, _, _)
WithIds(forest, prefix, k) ==
    IF forest = <<>> THEN <<>>
    ELSE LET c == Head(forest)
             id == Append(prefix, k)
         IN  <<[kind |-> c.kind, id |-> id, created_utc |-> c.created_utc,
                replies |-> WithIds(c.replies, id, 1)]>>
             \o WithIds(Tail(forest), prefix, k + 1)

\* a conversion that is applied whether or not the time is there
created_always(c) ==
    V(utcfromtimestamp(IF IsNull(c.created_utc) THEN 0 ELSE Val(c.created_utc)))

\* datetime.utcfromtimestamp(c["created_utc"]) if c.get("created_utc") else None
created_or_none(c) ==
    IF ~IsNull(c.created_utc) /\ Val(c.created_utc) # 0
    THEN V(utcfromtimestamp(Val(c.created_utc)))
    ELSE NaN

\* the dict yielded for one comment (the fields read with a .get default and
\* no bearing on the walk, body, author, score, is_submitter and parent_id,
\* are left out)
comment_record(c, post_id) ==
    [id |-> c.id, post_id |-> post_id, created_utc |-> created_or_none(c)]

\* a walk that hands out the replies before the comment itself
replies_then_yield(record, below, rest) == below \o <<record>> \o rest

\* the order of one loop round: `yield {...}` of the comment, then
\* `yield from extract_comments(reply_children)`, then the next sibling
yield_then_replies(record, below, rest) == <<record>> \o below \o rest

\* a test that lets one more comment through
BudgetSpentLate(count, lim) == count > lim

\* if count >= limit: return
BudgetSpent(count, lim) == count >= lim

\* extract_comments(comments) with the enclosing count passed in and out:
\* the records yielded, in order, and the count afterwards
RECURSIVE extract_comments(_, _, _, _)
extract_comments(comments, count, lim, post_id) ==
    IF comments = <<>> THEN [yielded |-> <<>>, count |-> count]
    ELSE LET comment == Head(comments) IN
         IF BudgetSpent(count, lim) THEN [yielded |-> <<>>, count |-> count]
         ELSE IF comment.kind # "t1"
         THEN extract_comments(Tail(comments), count, lim, post_id)
         ELSE LET below == IF comment.replies # <<>>
                           THEN extract_comments(comment.replies, count + 1, lim, post_id)
                           ELSE [yielded |-> <<>>, count |-> count + 1]
                  rest == extract_comments(Tail(comments), below.count, lim, post_id)
              IN  [yielded |-> yield_then_replies(comment_record(comment, post_id),
                                                  below.yielded, rest.yielded),
                   count |-> rest.count]

InitComments ==
    /\ \E forest \in Forests(MaxNodes) : comments_data = WithIds(forest, <<>>, 1)
    /\ comment_limit \in 0..MaxCommentLimit
    /\ comment_out = NoCall
    /\ AggIdle
    /\ ScrapeIdle
    /\ RecordIdle
    /\ MatchIdle
    /\ SentimentIdle

\* the request raises requests.RequestException: the generator returns
CommentsRequestFails ==
    /\ comment_out = NoCall
    /\ comment_out' = [status |-> "ok", how |-> "failed", yielded |-> <<>>]
    /\ UNCHANGED <<comments_data, comment_limit>>
    /\ UNCHANGED outsideComments

\* the response has fewer than two listings: the generator returns
CommentsShortResponse ==
    /\ comment_out = NoCall
    /\ comment_out' = [status |-> "ok", how |-> "short", yielded |-> <<>>]
    /\ UNCHANGED <<comments_data, comment_limit>>
    /\ UNCHANGED outsideComments

\* count = 0; yield from extract_comments(comments_data)
WalkComments ==
    /\ comment_out = NoCall
    /\ comment_out' = [status |-> "ok", how |-> "walk",
                       yielded |-> extract_comments(comments_data, 0, comment_limit, "p1").yielded]
    /\ UNCHANGED <<comments_data, comment_limit>>
    /\ UNCHANGED outsideComments

NextComments ==
    \/ CommentsRequestFails
    \/ CommentsShortResponse
    \/ WalkComments

SpecComments == InitComments /\ [][NextComments]_vars

-----------------------------------------------------------------------------
(* Name matchers (src/src/analyzer.py, src/analyze_layoffs.py) *)

\* Bound of the matcher model: length of a text
MaxTextLen == 4

\* characters of the texts: letters in both cases, a blank, an underscore
\* and a regex special character
MatchChars == {"a", "B", "x", " ", "_", "+"}

\* the text arguments: None, NaN, and every string up to MaxTextLen
MatchTexts ==
    {PyNone, PyNaN} \cup {PyStr(t) : t \in SeqUpTo(MatchChars, MaxTextLen)}

\* the configured lists: a plain name, names that end or begin with a
\* special character, and one that has it inside
MatchLists ==
    {<<>>,
     << <<"A", "b">> >>,
     << <<"b", "+">>, <<"A", "b">> >>,
     << <<"+", "a">> >>,
     << <<"a", "+", "b">>, <<"x">> >>}

\* the loop over the list: re.search(r'\b' + re.escape(company.lower()) + r'\b',
\* text_lower), the companies found kept in list order
FoundIn(text_lower, company_list) ==
    LET Hit(company) == WordSearch(Lower(company), text_lower)
    IN  SelectSeq(company_list, Hit)

\* analyzer.extract_companies: the guard is `if not text`; text.lower() of a
\* float raises AttributeError
extract_companies(text, company_list) ==
    IF Falsy(text) THEN [status |-> "ok", found |-> <<>>]
    ELSE IF text.py # "str" THEN [status |-> "AttributeError", found |-> <<>>]
    ELSE [status |-> "ok", found |-> FoundIn(Lower(text.s), company_list)]

\* analyze_layoffs.extract_companies: the guard is `if not text or pd.isna(text)`
layoffs_extract_companies(text, company_list) ==
    IF Falsy(text) \/ isna(text) THEN [status |-> "ok", found |-> <<>>]
    ELSE [status |-> "ok", found |-> FoundIn(Lower(text.s), company_list)]

InitMatch ==
    /\ m_text \in MatchTexts
    /\ m_companies \in MatchLists
    /\ found_analyzer = NoCall
    /\ found_layoffs = NoCall
    /\ found_mask = NoCall
    /\ AggIdle
    /\ ScrapeIdle
    /\ RecordIdle
    /\ CommentsIdle
    /\ SentimentIdle

\* a call of analyzer.extract_companies
ExtractCompanies ==
    /\ found_analyzer = NoCall
    /\ found_analyzer' = extract_companies(m_text, m_companies)
    /\ UNCHANGED <<m_text, m_companies, found_layoffs, found_mask>>
    /\ UNCHANGED outsideMatch

\* a call of analyze_layoffs.extract_companies
LayoffsExtractCompanies ==
    /\ found_layoffs = NoCall
    /\ found_layoffs' = layoffs_extract_companies(m_text, m_companies)
    /\ UNCHANGED <<m_text, m_companies, found_analyzer, found_mask>>
    /\ UNCHANGED outsideMatch

\* the loop of analyze_company_sentiment over the list, on a table of one
\* record whose text_combined is the text (a missing value there is no match,
\* na=False): the organizations with a non-empty mask
mask_companies(text, company_list) ==
    LET df == [cols |-> {"text_combined"},
               rows |-> <<[text_combined |-> IF text.py = "str" THEN V(text.s) ELSE NaN]>>]
        Hit(company) == text.py = "str" /\ CompanyMask(df, company) # {}
    IN  [status |-> "ok", found |-> SelectSeq(company_list, Hit)]

\* the masks of analyze_company_sentiment evaluated for the text
MaskCompanies ==
    /\ found_mask = NoCall
    /\ found_mask' = mask_companies(m_text, m_companies)
    /\ UNCHANGED <<m_text, m_companies, found_analyzer, found_layoffs>>
    /\ UNCHANGED outsideMatch

NextMatch ==
    \/ ExtractCompanies
    \/ LayoffsExtractCompanies
    \/ MaskCompanies

SpecMatch == InitMatch /\ [][NextMatch]_vars

-----------------------------------------------------------------------------
(* Sentiment classifier (src/src/sentiment.py) *)

\* the text arguments: nothing, an empty string, a blank and a word
SentimentTexts == {PyNone, PyNaN, PyStr(<<>>), PyStr(<<" ">>), PyStr(<<"a">>)}

\* what the scorer can return: polarity in [-1, 1] and subjectivity in
\* [0, 1], in hundredths
BlobScores == [polarity : -100..100, subjectivity : {0, 50, 100}]

InitSentiment ==
    /\ s_text \in SentimentTexts
    /\ s_result = NoCall
    /\ blob_calls = 0
    /\ AggIdle
    /\ ScrapeIdle
    /\ RecordIdle
    /\ CommentsIdle
    /\ MatchIdle

\* a call of analyze_sentiment, the scorer answering with any score
AnalyzeSentiment ==
    /\ s_result = NoCall
    /\ \E sentiment \in BlobScores :
          s_result' = [status |-> "ok", value |-> analyze_sentiment(s_text, sentiment)]
    /\ blob_calls' = blob_calls + blob_constructions(s_text)
    /\ UNCHANGED s_text
    /\ UNCHANGED outsideSentiment

NextSentiment == AnalyzeSentiment

SpecSentiment == InitSentiment /\ [][NextSentiment]_vars

-----------------------------------------------------------------------------
(* Properties of the aggregation engine, checked under SpecAgg *)

RowNames(df) == {Val(df.rows[i].company) : i \in 1..Len(df.rows)}
RefNames == RowNames(layoffs_df)
DiscNames == IF "company" \in sentiment_df.cols THEN RowNames(sentiment_df) ELSE {}
Keys(S) == {Lower(n) : n \in S}
AggDone == pcA \in {"combined", "raised", "summarized", "plotted", "plot_raised"}
RowKey(row) == Lower(Val(row.company))

\* C1: outer-join completeness. For every input, combine_layoffs_and_sentiment
\* returns a table whose organizations are exactly those of the reference
\* events together with those of the discussion side: none missing (every
\* reference display name has a row, every discussion organization has a row
\* under its case-insensitive key) and none added.
C1_OuterJoinComplete ==
    AggDone =>
        /\ combined.status = "ok"
        /\ Keys(RowNames(combined.df)) = Keys(RefNames) \cup Keys(DiscNames)
        /\ RowNames(combined.df) \subseteq RefNames \cup DiscNames
        /\ RefNames \subseteq RowNames(combined.df)

\* C2: the aggregation does not fail on empty input. When the discussion
\* side is empty or there are no reference events, the call still returns a
\* table.
C2_ValidOnEmptyInput ==
    (AggDone /\ (sentiment_df.rows = <<>> \/ layoffs_df.rows = <<>>))
        => combined.status = "ok"

\* C3: one row per case-insensitive organization key. No two rows of the
\* returned table have names that are equal after lowercasing.
C3_OneRowPerKey ==
    combined.status = "ok" =>
        \A i, j \in 1..Len(combined.df.rows) :
            i # j => RowKey(combined.df.rows[i]) # RowKey(combined.df.rows[j])

\* C4: after the merge no cell is null; a row without discussion data has
\* every discussion metric equal to 0, and a row without reference data has
\* total_laid_off and layoff_events equal to 0.
C4_NoNullAfterMerge ==
    combined.status = "ok" =>
        \A i \in 1..Len(combined.df.rows) :
            LET row == combined.df.rows[i]
            IN  /\ DOMAIN row = combined.df.cols
                /\ \A c \in DOMAIN row : ~IsNull(row[c])
                /\ RowKey(row) \notin Keys(DiscNames) =>
                       \A c \in MentionCols : row[c] = V(0)
                /\ RowKey(row) \notin Keys(RefNames) =>
                       row.total_laid_off = V(0) /\ row.layoff_events = V(0)

\* a merged table with a reference-only row and a discussion-only row
C4_Witness ==
    /\ combined.status = "ok"
    /\ \E i \in 1..Len(combined.df.rows) :
          RowKey(combined.df.rows[i]) \notin Keys(DiscNames)
    /\ \E i \in 1..Len(combined.df.rows) :
          RowKey(combined.df.rows[i]) \notin Keys(RefNames)

-----------------------------------------------------------------------------
(* Properties of the fetcher, checked under SpecScrape and FairScrape *)

Last(sq) == sq[Len(sq)]
Requests(lg) == {i \in 1..Len(lg) : lg[i].e = "request"}
FailedCall == log # <<>> /\ Last(log).e = "fail"
InPublicCall == ~use_praw /\ pcS \in {"while", "for", "pause"}

\* C5: within one call of scrape_subreddit_public the ids yielded are
\* pairwise distinct and the cursors sent are pairwise distinct, whatever
\* the endpoint answers.
C5_NoDuplicateIds ==
    ~use_praw =>
        /\ \A i, j \in 1..Len(posts) : i # j => posts[i].id # posts[j].id
        /\ \A i, j \in Requests(log) : i # j => log[i].after # log[j].after

\* C6: a call of scrape_subreddit_public never yields more than limit
\* records and never issues more than limit page requests (none for limit
\* 0), and every call comes to its end, whatever the endpoint answers.
C6_TerminatesWithinLimit ==
    /\ [](~use_praw => /\ Len(posts) <= limit
                       /\ Cardinality(Requests(log)) <= limit)
    /\ (InPublicCall ~> pcS \in {"collect", "raised"})

\* a call that ended after limit requests and limit records although the
\* last response still carried a cursor
C6_Witness ==
    /\ ~use_praw
    /\ pcS = "collect"
    /\ limit >= 2
    /\ Cardinality(Requests(log)) = limit
    /\ Len(posts) = limit
    /\ Truthy(resp_after)

\* C7: in one call every page request other than the first comes directly
\* after a completed pause.
C7_PauseBetweenRequests ==
    \A i \in 1..Len(log) :
        log[i].e = "request" => (i = 1 \/ log[i - 1].e = "sleep")

\* a call that has issued a second page request
C7_Witness == ~use_praw /\ Cardinality(Requests(log)) >= 2

\* C8: a transport failure of a page request ends the call: the failure is
\* the last event of the call (no further request, no retry), the records
\* yielded before it are untouched, and they go into the caller's list.
C8_FailureEndsCall ==
    [][/\ (~use_praw /\ log' # log /\ log' # <<>> /\ Last(log').e = "fail")
            => (pcS' = "collect" /\ posts' = posts)
       /\ \A i \in 1..Len(log') : log'[i].e = "fail" => i = Len(log')
       /\ (~use_praw /\ FailedCall /\ pcS = "collect")
            => (pcS' \in {"channel", "comments"} /\ all_posts' = all_posts \o posts)]_vars

\* a call that failed after it had yielded records, which are now in the
\* aggregate list
C8_Witness ==
    /\ ~use_praw
    /\ FailedCall
    /\ pcS = "channel"
    /\ posts # <<>>
    /\ Len(all_posts) >= Len(posts)
    /\ SubSeq(all_posts, Len(all_posts) - Len(posts) + 1, Len(all_posts)) = posts

\* C9: a malformed payload ends the fetch of the channel like a transport
\* failure does: no exception leaves the fetch loop of
\* scrape_subreddit_public.
C9_MalformedHandled == ~(~use_praw /\ pcS = "raised")

\* C10: a fetch failure aborts only the pagination of its channel, under
\* either strategy: scrape_all is not aborted, the records collected stay in
\* the aggregate list, and a finished run has fetched every channel.
C10_FailureAbortsOnlyChannel ==
    /\ FailedCall => pcS \in {"collect", "channel", "done"}
    /\ (FailedCall /\ pcS \in {"channel", "done"}) =>
          /\ Len(all_posts) >= Len(posts)
          /\ SubSeq(all_posts, Len(all_posts) - Len(posts) + 1, Len(all_posts)) = posts
    /\ pcS = "done" => fetch_log = Subreddits

-----------------------------------------------------------------------------
(* Strategy selection, checked under SpecCreds *)

\* a credential value that is set and is not one of the template's placeholders
UsableCredential(x) ==
    x # "" /\ x # "your_client_id_here" /\ x # "your_client_secret_here"

BothUsable == UsableCredential(REDDIT_CLIENT_ID) /\ UsableCredential(REDDIT_CLIENT_SECRET)

\* C11: the authenticated strategy is chosen exactly when both credentials are
\* set and are not placeholders, the public one otherwise; the choice is made
\* before the first channel, never changes afterwards, and every channel's
\* fetch runs under it
C11_StrategyFollowsCredentials ==
    /\ pcS = "start" => chan = 0 /\ fetch_log = <<>>
    /\ pcS \notin {"idle", "start"} => (use_praw <=> BothUsable)
    /\ pcS = "praw" => BothUsable
    /\ pcS \in {"while", "for", "pause"} => ~BothUsable

\* the second channel is being fetched with the authenticated strategy
C11_Witness ==
    /\ chan = 2
    /\ pcS = "praw"
    /\ BothUsable

-----------------------------------------------------------------------------
(* Record normalization, checked under SpecRecord *)

\* C12: for the same post the two strategies yield records with the same
\* field names and the same value in every field, also for a deleted
\* author and for a post whose source carries no upvote ratio
C12_SameRecordBothStrategies ==
    (rec_public # NoCall /\ rec_praw # NoCall) =>
        /\ rec_public.status = "ok"
        /\ rec_praw.status = "ok"
        /\ DOMAIN rec_public.rec = DOMAIN rec_praw.rec
        /\ \A k \in DOMAIN rec_public.rec : rec_public.rec[k] = rec_praw.rec[k]

-----------------------------------------------------------------------------
(* Comment-tree walker, checked under SpecComments *)

\* the comments of a forest that can be reached from the top level through
\* comments only
RECURSIVE ReachableComments(_)
ReachableComments(forest) ==
    IF forest = <<>> THEN {}
    ELSE LET c == Head(forest)
         IN  (IF c.kind = "t1" THEN {c} \cup ReachableComments(c.replies) ELSE {})
             \cup ReachableComments(Tail(forest))

Walked == comment_out # NoCall /\ comment_out.how = "walk"
YieldedIds == {comment_out.yielded[i].id : i \in 1..Len(comment_out.yielded)}

\* C13: a walk yields exactly min(limit, N) records, N being the number of
\* comments reachable from the top level through comments: one budget for
\* the whole tree, nested replies included, stubs not counted
C13_WalkYieldsMinLimitN ==
    Walked =>
        LET N == Cardinality(ReachableComments(comments_data))
        IN  /\ Len(comment_out.yielded) = IF comment_limit < N THEN comment_limit ELSE N
            /\ YieldedIds \subseteq {c.id : c \in ReachableComments(comments_data)}

\* the budget ran out inside a tree that has nested replies
C13_Witness ==
    /\ Walked
    /\ comment_limit >= 2
    /\ Cardinality(ReachableComments(comments_data)) > comment_limit
    /\ \E i \in 1..Len(comment_out.yielded) : Len(comment_out.yielded[i].id) >= 2
    /\ \E i \in 1..Len(comments_data) : comments_data[i].kind # "t1"

\* C14: a comment without a creation time is yielded with created_utc None,
\* and the walk goes on: when the budget covers the tree no such comment is
\* missing from the output
C14_MissingTimeYieldsNone ==
    Walked =>
        /\ \A c \in ReachableComments(comments_data) :
              \A i \in 1..Len(comment_out.yielded) :
                 (comment_out.yielded[i].id = c.id /\ IsNull(c.created_utc))
                     => comment_out.yielded[i].created_utc = NaN
        /\ Cardinality(ReachableComments(comments_data)) <= comment_limit =>
              \A c \in ReachableComments(comments_data) :
                 IsNull(c.created_utc) => c.id \in YieldedIds

\* a comment without a creation time was yielded and another one after it
C14_Witness ==
    /\ Walked
    /\ \E i \in 1..Len(comment_out.yielded) :
          /\ i < Len(comment_out.yielded)
          /\ comment_out.yielded[i].created_utc = NaN

-----------------------------------------------------------------------------
(* Name matchers, checked under SpecMatch *)

IsAlnum(c) == c \in {"a", "b", "c", "A", "B", "C", "x", "1"}
Range(sq) == {sq[i] : i \in 1..Len(sq)}

\* name occurs in t at position i, letter case aside
OccursAt(name, t, i) ==
    /\ i + Len(name) - 1 <= Len(t)
    /\ Lower(SubSeq(t, i, i + Len(name) - 1)) = Lower(name)

\* name occurs in t as a whole word: the occurrence has the start of the
\* text or a non-alphanumeric character before it, and the end of the text
\* or a non-alphanumeric character after it
OccursWholeWord(name, t) ==
    \E i \in 1..Len(t) :
        /\ OccursAt(name, t, i)
        /\ i = 1 \/ ~IsAlnum(t[i - 1])
        /\ i + Len(name) - 1 = Len(t) \/ ~IsAlnum(t[i + Len(name)])

HasSpecial(name) == \E i \in 1..Len(name) : ~IsAlnum(name[i])

\* C15: on a string, extract_companies returns exactly the listed names
\* that occur in it as a whole word, letter case aside
C15_FoundIffWholeWord ==
    (found_analyzer # NoCall /\ m_text.py = "str") =>
        /\ found_analyzer.status = "ok"
        /\ \A i \in 1..Len(m_companies) :
              m_companies[i] \in Range(found_analyzer.found)
                  <=> OccursWholeWord(m_companies[i], m_text.s)

\* C16: a name with a special character in it, also at its start or end, is
\* found wherever it occurs as a whole word, and is found in no text that
\* does not contain it literally
C16_SpecialNamesLiteral ==
    (found_analyzer # NoCall /\ m_text.py = "str") =>
        \A i \in 1..Len(m_companies) :
            HasSpecial(m_companies[i]) =>
                /\ OccursWholeWord(m_companies[i], m_text.s)
                      => m_companies[i] \in Range(found_analyzer.found)
                /\ m_companies[i] \in Range(found_analyzer.found)
                      => \E k \in 1..Len(m_text.s) : OccursAt(m_companies[i], m_text.s, k)

\* C17: for an empty string, None or NaN both matchers return the empty
\* list without raising, whatever the list
C17_NoContentNoMatch ==
    (Falsy(m_text) \/ isna(m_text)) =>
        /\ found_analyzer # NoCall =>
              found_analyzer.status = "ok" /\ found_analyzer.found = <<>>
        /\ found_layoffs # NoCall =>
              found_layoffs.status = "ok" /\ found_layoffs.found = <<>>

-----------------------------------------------------------------------------
(* Sentiment classifier, checked under SpecSentiment *)

\* C18: the label is positive exactly for a polarity above 0.1, negative
\* exactly below -0.1 and neutral in between, 0.1 and -0.1 included
C18_LabelByThresholds ==
    s_result # NoCall =>
        LET polarity == s_result.value.polarity
            label == s_result.value.label
        IN  /\ label \in {"positive", "negative", "neutral"}
            /\ label = "positive" <=> polarity > 10
            /\ label = "negative" <=> polarity < -10
            /\ label = "neutral" <=> (polarity >= -10 /\ polarity <= 10)

\* a text scored exactly 0.1 has been labelled
C18_Witness ==
    /\ s_result # NoCall
    /\ blob_calls = 1
    /\ s_result.value.polarity = 10
    /\ s_result.value.label = "neutral"

\* C19: for "", None and NaN the result is polarity 0, subjectivity 0,
\* neutral, and the scorer is not invoked
C19_NoContentIsNeutral ==
    (s_result # NoCall /\ s_text \in {PyNone, PyNaN, PyStr(<<>>)}) =>
        /\ s_result.value = [polarity |-> 0, subjectivity |-> 0, label |-> "neutral"]
        /\ blob_calls = 0

\* the function has returned for a NaN argument
C19_Witness ==
    /\ s_result # NoCall
    /\ s_text = PyNaN

-----------------------------------------------------------------------------
(* Correlation step, checked under SpecAgg *)

\* fewer than two organizations have both layoffs and mentions, or one of
\* the two columns is the same for all of them
CorrelationUndefined ==
    LET rows == BothPositive(combined.df)
    IN  \/ Len(rows) < 2
        \/ \A i, j \in 1..Len(rows) : rows[i].total_laid_off = rows[j].total_laid_off
        \/ \A i, j \in 1..Len(rows) : rows[i].mentions = rows[j].mentions

\* C20: when the coefficient of layoffs against mentions cannot be computed,
\* the correlation step never shows a number for it (in the summary or in
\* the plot title), and the run goes on
C20_UndefinedCorrelationReported ==
    (pcA \in {"summarized", "plotted", "plot_raised"} /\ CorrelationUndefined) =>
        /\ pcA # "plot_raised"
        /\ \A i \in 1..Len(corr_report.printed) :
              corr_report.printed[i].label = "Layoffs vs Mentions"
                  => corr_report.printed[i].text.shown # "number"
        /\ \A i \in 1..Len(corr_report.titles) :
              corr_report.titles[i].label = "Layoffs vs Mentions"
                  => corr_report.titles[i].text.shown # "number"

-----------------------------------------------------------------------------
(* Frame of the aggregation, checked under SpecAgg *)

\* C21: a call of analyze_company_sentiment leaves the caller's reddit_df as
\* it was, and a call of combine_layoffs_and_sentiment leaves the caller's
\* layoffs_df and sentiment_df as they were: same columns, same values
C21_InputsUnchanged ==
    [][/\ (pcA = "input" /\ pcA' = "analyzed") => reddit_df' = reddit_df
       /\ (pcA = "analyzed" /\ pcA' \in {"combined", "raised"}) =>
              (layoffs_df' = layoffs_df /\ sentiment_df' = sentiment_df)]_vars

\* C22: a merged row whose organization has reference events carries a
\* reference display name, in the reference side's casing; a name of the
\* configured list appears only on a row without reference events
C22_ReferenceNamePreferred ==
    combined.status = "ok" =>
        \A i \in 1..Len(combined.df.rows) :
            LET name == Val(combined.df.rows[i].company)
            IN  IF Lower(name) \in Keys(RefNames)
                THEN name \in RefNames
                ELSE name \in DiscNames

\* an organization with events and mentions whose configured casing differs
\* from the reference casing has been merged
C22_Witness ==
    /\ combined.status = "ok"
    /\ \E i \in 1..Len(combined.df.rows) :
          LET row == combined.df.rows[i]
          IN  /\ Val(row.mentions) > 0
              /\ Val(row.layoff_events) > 0
              /\ Val(row.company) \notin DiscNames
              /\ Val(row.company) \in RefNames

\* the events of the reference table whose display name is name
EventsOf(name) == {i \in 1..Len(layoffs_df.rows) : layoffs_df.rows[i].company = V(name)}

\* C25: every reference display name has its row, with total_laid_off the
\* sum of its events' counts, first_layoff and last_layoff the earliest and
\* latest of their dates and layoff_events their number; and in every
\* returned table the total_laid_off of all rows add up to the
\* laid_off_count of all events
C25_ReferenceGrouping ==
    combined.status = "ok" =>
        /\ \A name \in RefNames :
              \E i \in 1..Len(combined.df.rows) : combined.df.rows[i].company = V(name)
        /\ \A i \in 1..Len(combined.df.rows) :
              LET row == combined.df.rows[i]
                  ev == EventsOf(Val(row.company))
              IN  ev # {} =>
                    /\ Val(row.total_laid_off) =
                          SumOver([e \in ev |-> Val(layoffs_df.rows[e].laid_off_count)], ev)
                    /\ \A e \in ev : /\ Val(row.first_layoff) <= Val(layoffs_df.rows[e].date)
                                      /\ Val(row.last_layoff) >= Val(layoffs_df.rows[e].date)
                    /\ \E e \in ev : Val(row.first_layoff) = Val(layoffs_df.rows[e].date)
                    /\ \E e \in ev : Val(row.last_layoff) = Val(layoffs_df.rows[e].date)
                    /\ Val(row.layoff_events) = Cardinality(ev)
        /\ LET R == 1..Len(combined.df.rows)
               E == 1..Len(layoffs_df.rows)
           IN  SumOver([i \in R |-> Val(combined.df.rows[i].total_laid_off)], R)
                 = SumOver([e \in E |-> Val(layoffs_df.rows[e].laid_off_count)], E)

\* the discussion records whose title-plus-body text has name as a whole word
MatchingPosts(name) ==
    {i \in 1..Len(reddit_df.rows) : OccursWholeWord(name, text_combined(reddit_df.rows[i]))}

\* the rows of the discussion-side table for a configured name
SentimentRows(name) ==
    {i \in 1..Len(sentiment_df.rows) : sentiment_df.rows[i].company = V(name)}

\* C26: the discussion-side table has a row for a configured organization
\* exactly when some record's text matches it, with mentions the number of
\* matching records; an organization without a match is in the merged table
\* only if it has reference events
C26_DiscussionGrouping ==
    /\ pcA \in {"analyzed", "combined"} =>
          \A k \in 1..Len(companies) :
              LET name == companies[k]
              IN  /\ SentimentRows(name) # {} <=> MatchingPosts(name) # {}
                  /\ \A i \in SentimentRows(name) :
                        Val(sentiment_df.rows[i].mentions) = Cardinality(MatchingPosts(name))
    /\ combined.status = "ok" =>
          \A k \in 1..Len(companies) :
              (MatchingPosts(companies[k]) = {} /\ Lower(companies[k]) \in Keys(RowNames(combined.df)))
                  => Lower(companies[k]) \in Keys(RefNames)

CountsAddUp(row) ==
    Val(row.positive) + Val(row.neutral) + Val(row.negative) = Val(row.mentions)

\* C27: sentiment-count invariant. In every row returned by
\* analyze_company_sentiment and in every row of the merged table,
\* positive + neutral + negative = mentions; every row of the discussion table
\* and every merged row whose organization has a discussion group has
\* mentions >= 1 (every discussion record here carries a sentiment label).
C27_SentimentCounts ==
    /\ pcA # "input" =>
          \A i \in 1..Len(sentiment_df.rows) :
              /\ CountsAddUp(sentiment_df.rows[i])
              /\ Val(sentiment_df.rows[i].mentions) >= 1
    /\ combined.status = "ok" =>
          \A i \in 1..Len(combined.df.rows) :
              LET row == combined.df.rows[i]
              IN  /\ CountsAddUp(row)
                  /\ RowKey(row) \in Keys(DiscNames) => Val(row.mentions) >= 1

\* a merged table with a discussion-side row of two mentions carrying two
\* different labels next to a reference-only row
C27_Witness ==
    /\ combined.status = "ok"
    /\ \E i \in 1..Len(combined.df.rows) :
          LET row == combined.df.rows[i]
          IN  /\ Val(row.mentions) = 2
              /\ Cardinality({c \in {"positive", "neutral", "negative"} : Val(row[c]) = 1}) = 2
    /\ \E i \in 1..Len(combined.df.rows) :
          RowKey(combined.df.rows[i]) \notin Keys(DiscNames)

-----------------------------------------------------------------------------
(* Properties of the loop body of scrape_all and of the cursor protocol *)

EndsWith(lst, items) ==
    /\ Len(lst) >= Len(items)
    /\ SubSeq(lst, Len(lst) - Len(items) + 1, Len(lst)) = items

CommentCallStep == Len(comment_calls') > Len(comment_calls)

SequentialChannels ==
    fetch_log' # fetch_log =>
        /\ pcS = "channel"
        /\ chan' = chan + 1
        /\ fetch_log' = SubSeq(Subreddits, 1, chan')

\* C23: channels are processed strictly one after another, and the records
\* of a channel are appended to all_posts only after the whole fetch of the
\* channel, pager and comment walker, has completed: no call of
\* scrape_comments_public for a channel happens once records of that channel
\* are in all_posts.
C23_AppendAfterWholeFetch ==
    [][/\ SequentialChannels
       /\ CommentCallStep =>
              \A i \in 1..Len(all_posts) : all_posts[i].subreddit # Subreddits[chan]]_vars

\* C23 as the code has it: channels are processed strictly one after
\* another; the records of a channel are appended to all_posts in the step
\* after its pager has completed, and every call of scrape_comments_public for
\* the channel comes after that append.
C23_AppendAfterPager ==
    [][/\ SequentialChannels
       /\ all_posts' # all_posts =>
              (pcS = "collect" /\ all_posts' = all_posts \o posts)
       /\ CommentCallStep =>
              (pcS = "comments" /\ EndsWith(all_posts, posts))]_vars

\* the comment walker at work in the second channel, after both channels
\* added records to all_posts
C23_Witness ==
    /\ chan = 2
    /\ pcS = "comments"
    /\ comment_calls # <<>>
    /\ posts # <<>>
    /\ Len(all_posts) > Len(posts)

\* C24: the comment walker runs only under the public strategy and only
\* when comment collection is enabled: no call of scrape_comments_public in
\* a run with the authenticated strategy or without include_comments; under
\* the public strategy it is called for at most the first 30 posts of the
\* channel, in the order they were fetched.
C24_CommentWalkerScope ==
    /\ use_praw => comment_calls = <<>>
    /\ ~include_comments => comment_calls = <<>>
    /\ Len(comment_calls) <= 30
    /\ Len(comment_calls) <= Len(posts)
    /\ \A i \in 1..Len(comment_calls) : comment_calls[i] = posts[i].id

\* a channel with more than 30 posts whose comment loop is over after
\* exactly 30 calls
C24_Witness ==
    /\ ~use_praw
    /\ include_comments
    /\ Len(posts) > 30
    /\ Len(comment_calls) = 30
    /\ pcS = "channel"

RequestsSent == SelectSeq(log, LAMBDA ev : ev.e = "request")

RECURSIVE ChildrenOf(_)
ChildrenOf(ps) ==
    IF ps = <<>> THEN <<>> ELSE Head(ps).children \o ChildrenOf(Tail(ps))

\* C28: cursor protocol of scrape_subreddit_public. The first page request
\* of a call carries no cursor, every later request carries the cursor of
\* the response just before it, and the records yielded are, in order, those
\* of a prefix of the concatenation of the pages fetched.
C28_CursorProtocol ==
    ~use_praw =>
        /\ Len(pages) <= Len(RequestsSent)
        /\ Len(RequestsSent) <= Len(pages) + 1
        /\ \A k \in 1..Len(RequestsSent) :
              RequestsSent[k].after = IF k = 1 THEN NaN ELSE pages[k - 1].after
        /\ Len(posts) <= Len(ChildrenOf(pages))
        /\ \A i \in 1..Len(posts) :
              posts[i] = PostRecord(ChildrenOf(pages)[i], Subreddits[chan])

\* a call that sent a second request and yielded one record of each of two
\* pages
C28_Witness ==
    /\ ~use_praw
    /\ Len(RequestsSent) = 2
    /\ Len(pages) = 2
    /\ Len(pages[1].children) = 1
    /\ Truthy(pages[1].after)
    /\ Len(posts) = 2

-----------------------------------------------------------------------------
(* Traversal order of the comment walker, checked under SpecComments *)

\* the ids of the comments reachable through comments, each comment followed
\* by its replies and then by its next sibling
RECURSIVE Preorder(_)
Preorder(forest) ==
    IF forest = <<>> THEN <<>>
    ELSE LET c == Head(forest)
         IN  (IF c.kind = "t1" THEN <<c.id>> \o Preorder(c.replies) ELSE <<>>)
             \o Preorder(Tail(forest))

IsPrefix(p, q) == Len(p) <= Len(q) /\ SubSeq(q, 1, Len(p)) = p

IdsOf(records) == [i \in 1..Len(records) |-> records[i].id]

\* path p comes before path q in document order: p is an ancestor of q, or
\* at the first place where they differ p has the smaller index
DocumentOrder(p, q) ==
    \/ Len(p) < Len(q) /\ SubSeq(q, 1, Len(p)) = p
    \/ \E k \in 1..Len(p) :
          /\ k <= Len(q)
          /\ SubSeq(p, 1, k - 1) = SubSeq(q, 1, k - 1)
          /\ p[k] < q[k]

\* C29: scrape_comments_public yields in depth-first pre-order: a comment
\* before its replies and all its yielded descendants before its next
\* sibling; the sequence yielded is a prefix of the pre-order sequence of the
\* comments of the tree, and the sequence for limit L is a prefix of the one
\* for limit L + 1.
C29_PreorderPrefix ==
    Walked =>
        LET ids == IdsOf(comment_out.yielded)
            more == IdsOf(extract_comments(comments_data, 0, comment_limit + 1, "p1").yielded)
        IN  /\ IsPrefix(ids, Preorder(comments_data))
            /\ IsPrefix(ids, more)
            /\ \A i, j \in 1..Len(ids) : i < j => DocumentOrder(ids[i], ids[j])

\* a walk cut short by the limit after it yielded a comment, a reply of it
\* and then the next top-level comment, with one more comment to come under
\* the next limit
C29_Witness ==
    /\ Walked
    /\ Len(comment_out.yielded) = comment_limit
    /\ Len(Preorder(comments_data)) > comment_limit
    /\ \E i, j \in 1..Len(comment_out.yielded) :
          /\ i < j
          /\ Len(comment_out.yielded[i].id) = 2
          /\ Len(comment_out.yielded[j].id) = 1

-----------------------------------------------------------------------------
(* Agreement of the matchers, checked under SpecMatch *)

InListOrder(found, company_list) ==
    found = SelectSeq(company_list, LAMBDA c : c \in Range(found))

\* C30: for every string text and every list, analyzer.extract_companies,
\* analyze_layoffs.extract_companies and the masks of
\* analyze_company_sentiment select the same organizations, and the two
\* functions return them in the order of the list.
C30_MatchersAgree ==
    m_text.py = "str" =>
        /\ (found_analyzer # NoCall /\ found_layoffs # NoCall) =>
              /\ found_analyzer.status = "ok"
              /\ found_layoffs = found_analyzer
        /\ (found_analyzer # NoCall /\ found_mask # NoCall) =>
              Range(found_mask.found) = Range(found_analyzer.found)
        /\ (found_layoffs # NoCall /\ found_mask # NoCall) =>
              Range(found_mask.found) = Range(found_layoffs.found)
        /\ found_analyzer # NoCall => InListOrder(found_analyzer.found, m_companies)
        /\ found_layoffs # NoCall => InListOrder(found_layoffs.found, m_companies)

\* the three were applied to a text in which two listed names occur, one of
\* them only with another letter case
C30_Witness ==
    /\ m_text.py = "str"
    /\ found_analyzer # NoCall
    /\ found_layoffs # NoCall
    /\ found_mask # NoCall
    /\ Len(found_analyzer.found) = 2
    /\ \E i \in 1..Len(m_companies) :
          /\ m_companies[i] \in Range(found_mask.found)
          /\ \A k \in 1..(Len(m_text.s) - Len(m_companies[i]) + 1) :
                SubSeq(m_text.s, k, k + Len(m_companies[i]) - 1) # m_companies[i]


====
